---- MODULE Spec2Model ----
(***************************************************************************)
(* HoloVitals/merge-schemas.py: the Prisma schema block scanner            *)
(* (extract_models, extract_enums) and the merge (merge_schemas).          *)
(*                                                                         *)
(* Text representation.  A line of text is the sequence of its             *)
(* whitespace-separated tokens; the tokens "{" and "}" are the brace       *)
(* characters.  A string is the non-empty sequence of the lines that       *)
(* str.split('\n') returns for it: the empty string is one empty line.     *)
(***************************************************************************)
EXTENDS Integers, Sequences, FiniteSets, TLC

VARIABLES
    \* ---- extract_models / extract_enums, one call, line by line
    keyword,          \* "model" for extract_models, "enum" for extract_enums
    schema_content,   \* the argument: the lines of the document
    line_no,          \* number of lines the for loop has consumed
    scan_pc,          \* "idle" | "loop" | "returned"
    models,           \* the dict being built (enums in extract_enums)
    current_model,    \* current_model / current_enum
    current_content,  \* the accumulator
    in_model,         \* in_model / in_enum
    brace_count,
    stored,           \* history: one record per dict store the call made
    \* ---- merge_schemas
    main_file,        \* the main schema file on disk: [exists, text]
    disk,             \* the additional schema files on disk, in list order
    pc,               \* "start" | "loop" | "build" | "done" | "crashed" | "off"
    schema_idx,       \* position of the for loop over additional_schemas
    header,
    all_models,
    all_enums,
    report,           \* what the run printed, as a sequence of events
    output            \* the text written to the output file, or NotWritten

scan_vars == <<keyword, schema_content, line_no, scan_pc, models, current_model,
               current_content, in_model, brace_count, stored>>
merge_vars == <<main_file, disk, pc, schema_idx, header, all_models, all_enums,
                report, output>>
vars == <<scan_vars, merge_vars>>

----------------------------------------------------------------------------
(* Bounds *)

\* longest document handed to one scanner call
MaxLines == 4
\* total number of lines over the main schema and the additional schemas
MaxTotalLines == 3

----------------------------------------------------------------------------
(* Python values *)

None == "None"
NotWritten == << <<"not written">> >>
EmptyLine == << >>

RECURSIVE SeqSum(_)
SeqSum(s) == IF s = << >> THEN 0 ELSE Head(s) + SeqSum(Tail(s))

\* str.count(ch) for a brace character
Count(line, ch) == Cardinality({i \in 1..Len(line) : line[i] = ch})

\* line.count('{') - line.count('}')
BraceDelta(line) == Count(line, "{") - Count(line, "}")

\* line.strip().startswith(kw + ' '): the stripped line starts with the
\* keyword and a blank, so at least one more token follows it
StartsWith(line, kw) == Len(line) >= 2 /\ line[1] = kw

\* line.strip().split()[1]
SecondToken(line) == line[2]

\* '\n'.join(parts): parts is a sequence of strings
RECURSIVE Concat(_)
Concat(parts) == IF parts = << >> THEN << >> ELSE Head(parts) \o Concat(Tail(parts))

Join(parts) == IF parts = << >> THEN <<EmptyLine>> ELSE Concat(parts)

\* '\n'.join(lines) for a list of single lines
JoinLines(lines) == Join([i \in 1..Len(lines) |-> <<lines[i]>>])

\* dict: insertion-ordered sequence of [k, v] with distinct keys
DictKeys(d) == [i \in 1..Len(d) |-> d[i].k]
DictHas(d, name) == \E i \in 1..Len(d) : d[i].k = name
DictGet(d, name) == d[CHOOSE i \in 1..Len(d) : d[i].k = name].v
\* d[name] = text
DictSet(d, name, text) ==
    IF DictHas(d, name)
    THEN [i \in 1..Len(d) |-> IF d[i].k = name THEN [k |-> name, v |-> text] ELSE d[i]]
    ELSE Append(d, [k |-> name, v |-> text])

----------------------------------------------------------------------------
(* extract_models / extract_enums *)

\* the locals before the for loop
ScanStart ==
    [models |-> << >>, current_model |-> None, current_content |-> << >>,
     in_model |-> FALSE, brace_count |-> 0]

\* the pending block is stored only when its braces are balanced
StoreBalancedPending(s) ==
    IF s.current_model # None /\ s.current_content # << >> /\ s.brace_count = 0
    THEN DictSet(s.models, s.current_model, JoinLines(s.current_content))
    ELSE s.models

\* `if current_model and current_content: models[current_model] = ...`
StorePending(s) ==
    IF s.current_model # None /\ s.current_content # << >>
    THEN DictSet(s.models, s.current_model, JoinLines(s.current_content))
    ELSE s.models

\* open_block adding the line's braces to the count of the block left open
open_block_keep_count(s, line) ==
    [models |-> StorePending(s),
     current_model |-> SecondToken(line),
     current_content |-> <<line>>,
     in_model |-> TRUE,
     brace_count |-> s.brace_count + BraceDelta(line)]

\* the branch taken by a declaration line of this kind
open_block(s, line) ==
    [models |-> StorePending(s),
     current_model |-> SecondToken(line),
     current_content |-> <<line>>,
     in_model |-> TRUE,
     brace_count |-> BraceDelta(line)]

\* block_line closing the block as soon as the count is not positive
block_line_nonpositive(s, line) ==
    LET content == Append(s.current_content, line)
        count == s.brace_count + BraceDelta(line)
    IN IF count <= 0
       THEN [models |-> DictSet(s.models, s.current_model, JoinLines(content)),
             current_model |-> None,
             current_content |-> << >>,
             in_model |-> FALSE,
             brace_count |-> count]
       ELSE [s EXCEPT !.current_content = content, !.brace_count = count]

\* block_line storing the closed block without leaving the block
block_line_stay_in(s, line) ==
    LET content == Append(s.current_content, line)
        count == s.brace_count + BraceDelta(line)
    IN IF count = 0
       THEN [s EXCEPT !.models = DictSet(s.models, s.current_model, JoinLines(content)),
                      !.current_content = content, !.brace_count = count]
       ELSE [s EXCEPT !.current_content = content, !.brace_count = count]

\* the branch taken by any other line while in_model is set
block_line(s, line) ==
    LET content == Append(s.current_content, line)
        count == s.brace_count + BraceDelta(line)
    IN IF count = 0
       THEN [models |-> DictSet(s.models, s.current_model, JoinLines(content)),
             current_model |-> None,
             current_content |-> << >>,
             in_model |-> FALSE,
             brace_count |-> count]
       ELSE [s EXCEPT !.current_content = content, !.brace_count = count]

\* one iteration of `for line in lines`
scan_line(s, line, kw) ==
    IF StartsWith(line, kw) THEN open_block(s, line)
    ELSE IF s.in_model THEN block_line(s, line)
    ELSE s

RECURSIVE scan_lines(_, _, _)
scan_lines(s, lines, kw) ==
    IF lines = << >> THEN s
    ELSE scan_lines(scan_line(s, Head(lines), kw), Tail(lines), kw)

\* the whole function: the loop, then the store after the loop
extract_blocks(text, kw) == StorePending(scan_lines(ScanStart, text, kw))

extract_models(text) == extract_blocks(text, "model")
extract_enums(text) == extract_blocks(text, "enum")

----------------------------------------------------------------------------
(* Documents of the scanner specification *)

model_a == <<"model", "a", "{">>
model_B == <<"model", "B", "{", "}">>
enum_a == <<"enum", "a", "{">>
field_x == <<"x">>
close_brace == <<"}">>
nested_open == <<"y", "{">>
bare_keyword == <<"model">>

ScanPool == {model_a, model_B, enum_a, field_x, close_brace, nested_open,
             bare_keyword, EmptyLine}

\* the non-empty sequences over pool of at most n lines
TextsUpTo(pool, n) == UNION {[1..k -> pool] : k \in 1..n}

Locals ==
    [models |-> models, current_model |-> current_model,
     current_content |-> current_content, in_model |-> in_model,
     brace_count |-> brace_count]

SetLocals(s) ==
    /\ models' = s.models
    /\ current_model' = s.current_model
    /\ current_content' = s.current_content
    /\ in_model' = s.in_model
    /\ brace_count' = s.brace_count

MergeOff ==
    /\ main_file = [exists |-> FALSE, text |-> <<EmptyLine>>]
    /\ disk = << >>
    /\ pc = "off"
    /\ schema_idx = 0
    /\ header = <<EmptyLine>>
    /\ all_models = << >>
    /\ all_enums = << >>
    /\ report = << >>
    /\ output = NotWritten

ScanInit ==
    /\ keyword \in {"model", "enum"}
    /\ schema_content \in TextsUpTo(ScanPool, MaxLines)
    /\ line_no = 0
    /\ scan_pc = "loop"
    /\ models = ScanStart.models
    /\ current_model = ScanStart.current_model
    /\ current_content = ScanStart.current_content
    /\ in_model = ScanStart.in_model
    /\ brace_count = ScanStart.brace_count
    /\ stored = << >>
    /\ MergeOff

NextLine == schema_content[line_no + 1]

\* the history record of a store: the name, the text now in the dict, which
\* statement stored it, and the line the block was opened at
Stored(dict, name, how, last) ==
    [name |-> name, text |-> DictGet(dict, name), how |-> how,
     first |-> last + 1 - Len(DictGet(dict, name))]

\* a declaration line: lines 22-29 (57-64)
OpenLine ==
    /\ scan_pc = "loop" /\ line_no < Len(schema_content)
    /\ StartsWith(NextLine, keyword)
    /\ LET s == scan_line(Locals, NextLine, keyword)
       IN /\ SetLocals(s)
          /\ stored' = IF DictHas(s.models, current_model) /\ current_content # << >>
                       THEN Append(stored, Stored(s.models, current_model, "reopen", line_no))
                       ELSE stored
    /\ line_no' = line_no + 1
    /\ UNCHANGED <<keyword, schema_content, scan_pc, merge_vars>>

\* another line while in a block: lines 30-38 (65-73)
BlockLine ==
    /\ scan_pc = "loop" /\ line_no < Len(schema_content)
    /\ ~StartsWith(NextLine, keyword) /\ in_model
    /\ LET s == scan_line(Locals, NextLine, keyword)
       IN /\ SetLocals(s)
          /\ stored' = IF ~s.in_model
                       THEN Append(stored, Stored(s.models, current_model, "close", line_no + 1))
                       ELSE stored
    /\ line_no' = line_no + 1
    /\ UNCHANGED <<keyword, schema_content, scan_pc, merge_vars>>

\* another line outside every block: no branch of the loop body is taken
OutsideLine ==
    /\ scan_pc = "loop" /\ line_no < Len(schema_content)
    /\ ~StartsWith(NextLine, keyword) /\ ~in_model
    /\ SetLocals(scan_line(Locals, NextLine, keyword))
    /\ line_no' = line_no + 1
    /\ UNCHANGED <<keyword, schema_content, scan_pc, stored, merge_vars>>

\* after the loop: lines 40-44 (75-78)
ScanReturn ==
    /\ scan_pc = "loop" /\ line_no = Len(schema_content)
    /\ models' = StorePending(Locals)
    /\ stored' = IF DictHas(StorePending(Locals), current_model) /\ current_content # << >>
                 THEN Append(stored, Stored(StorePending(Locals), current_model, "eof", line_no))
                 ELSE stored
    /\ scan_pc' = "returned"
    /\ UNCHANGED <<keyword, schema_content, line_no, current_model,
                   current_content, in_model, brace_count, merge_vars>>

ScanNext == OpenLine \/ BlockLine \/ OutsideLine \/ ScanReturn

SpecScan == ScanInit /\ [][ScanNext]_vars

----------------------------------------------------------------------------
(* merge_schemas *)

\* len(additional_schemas)
NumAdditional == 5

\* the header loop stopping at 'model ' lines only
RECURSIVE header_lines_model_only(_)
header_lines_model_only(lines) ==
    IF lines = << >> THEN << >>
    ELSE IF StartsWith(Head(lines), "model")
         THEN << >>
         ELSE <<Head(lines)>> \o header_lines_model_only(Tail(lines))

\* the header loop
RECURSIVE header_lines(_)
header_lines(lines) ==
    IF lines = << >> THEN << >>
    ELSE IF StartsWith(Head(lines), "model") \/ StartsWith(Head(lines), "enum")
         THEN << >>
         ELSE <<Head(lines)>> \o header_lines(Tail(lines))

extract_header(text) == JoinLines(header_lines(text))

\* one printed line of the run
Event(ev, path, kind, name) == [ev |-> ev, path |-> path, kind |-> kind, name |-> name]

\* add_new with the later definition replacing the stored one
RECURSIVE add_new_overwrite(_, _, _, _)
add_new_overwrite(acc, items, kind, path) ==
    IF items = << >> THEN acc
    ELSE LET it == Head(items)
         IN add_new_overwrite(
                [all |-> DictSet(acc.all, it.k, it.v),
                 report |-> Append(acc.report,
                                   Event(IF DictHas(acc.all, it.k) THEN "skipped" ELSE "added",
                                         path, kind, it.k))],
                Tail(items), kind, path)

\* add_new printing nothing for a duplicate
RECURSIVE add_new_silent(_, _, _, _)
add_new_silent(acc, items, kind, path) ==
    IF items = << >> THEN acc
    ELSE LET it == Head(items)
         IN IF ~DictHas(acc.all, it.k)
            THEN add_new_silent([all |-> Append(acc.all, it),
                                 report |-> Append(acc.report,
                                                   Event("added", path, kind, it.k))],
                                Tail(items), kind, path)
            ELSE add_new_silent(acc, Tail(items), kind, path)

\* `for name, content in found.items()`: add the new ones, skip the duplicates
RECURSIVE add_new(_, _, _, _)
add_new(acc, items, kind, path) ==
    IF items = << >> THEN acc
    ELSE LET it == Head(items)
         IN IF ~DictHas(acc.all, it.k)
            THEN add_new([all |-> Append(acc.all, it),
                          report |-> Append(acc.report, Event("added", path, kind, it.k))],
                         Tail(items), kind, path)
            ELSE add_new([all |-> acc.all,
                          report |-> Append(acc.report, Event("skipped", path, kind, it.k))],
                         Tail(items), kind, path)

\* one iteration of `for schema_path in additional_schemas`
merge_additional(m, file, path) ==
    IF ~file.exists
    THEN [m EXCEPT !.report = Append(@, Event("missing", path, "-", "-"))]
    ELSE LET r0 == Append(m.report, Event("read", path, "-", "-"))
             ms == add_new([all |-> m.all_models, report |-> r0],
                           extract_models(file.text), "model", path)
             es == add_new([all |-> m.all_enums, report |-> ms.report],
                           extract_enums(file.text), "enum", path)
         IN [all_models |-> ms.all, all_enums |-> es.all, report |-> es.report]

\* the state after reading the main schema
read_main(text) ==
    [all_models |-> extract_models(text), all_enums |-> extract_enums(text),
     report |-> <<Event("main", 0, "-", "-")>>]

\* Python's order of two names of one character
CodePoint(c) == CASE c = "B" -> 66 [] c = "a" -> 97 [] OTHER -> 0
StrLess(a, b) == CodePoint(a) < CodePoint(b)

\* the keys in insertion order, not sorted
unsorted_keys(d) == DictKeys(d)

\* sorted(d.keys())
sorted_keys(d) == SortSeq(DictKeys(d), StrLess)

Bar == <<"//", "====">>
Banner(label) == << <<EmptyLine, Bar>>, <<<<"//", label>>>>, <<Bar, EmptyLine>> >>

\* `for name in sorted(d.keys())`: the block, then ''
section_entries(d) ==
    LET names == sorted_keys(d)
    IN Concat([i \in 1..Len(names) |-> << DictGet(d, names[i]), <<EmptyLine>> >>])

\* the list `consolidated` with the MODELS section before the ENUMS section
consolidated_models_first(hdr, enums, mdls) ==
    <<hdr>> \o Banner("MODELS") \o section_entries(mdls)
            \o Banner("ENUMS") \o section_entries(enums)

\* the list `consolidated`
consolidated(hdr, enums, mdls) ==
    <<hdr>> \o Banner("ENUMS") \o section_entries(enums)
            \o Banner("MODELS") \o section_entries(mdls)

\* '\n'.join(consolidated)
build_output(hdr, enums, mdls) == Join(consolidated(hdr, enums, mdls))

RECURSIVE merge_all(_, _, _)
merge_all(m, files, path) ==
    IF files = << >> THEN m
    ELSE merge_all(merge_additional(m, Head(files), path), Tail(files), path + 1)

\* the text a run writes for a main schema text and a list of additional files
merge_output(text, files) ==
    LET m == merge_all(read_main(text), files, 1)
    IN build_output(extract_header(text), m.all_enums, m.all_models)

----------------------------------------------------------------------------
(* Files of the merge specification *)

MergePool == {model_a, model_B, enum_a, field_x, close_brace}

Absent == [exists |-> FALSE, text |-> <<EmptyLine>>]
File(text) == [exists |-> TRUE, text |-> text]
FileLines(f) == IF f.exists THEN Len(f.text) ELSE 0

\* the files of exactly n lines; no lines: the file is not there
FilesOfLen(n) == IF n = 0 THEN {Absent} ELSE {File(t) : t \in [1..n -> MergePool]}

\* the ways to give n files at most budget lines in total
RECURSIVE LenVectors(_, _)
LenVectors(n, budget) ==
    IF n = 0 THEN {<< >>}
    ELSE UNION {{<<k>> \o rest : rest \in LenVectors(n - 1, budget - k)} :
                k \in 0..budget}

\* the lists of files of the given lengths
RECURSIVE FileLists(_)
FileLists(lens) ==
    IF lens = << >> THEN {<< >>}
    ELSE {<<f>> \o rest : f \in FilesOfLen(Head(lens)), rest \in FileLists(Tail(lens))}

ScanOff ==
    /\ keyword = "model"
    /\ schema_content = <<EmptyLine>>
    /\ line_no = 0
    /\ scan_pc = "idle"
    /\ models = << >>
    /\ current_model = None
    /\ current_content = << >>
    /\ in_model = FALSE
    /\ brace_count = 0
    /\ stored = << >>

MergeInit ==
    /\ \E lens \in LenVectors(NumAdditional + 1, MaxTotalLines) :
          \* without a main schema the run stops before it looks at any other
          \* file: one additional line is enough there
          /\ Head(lens) = 0 => SeqSum(Tail(lens)) <= 1
          /\ main_file \in FilesOfLen(Head(lens))
          /\ disk \in FileLists(Tail(lens))
    /\ pc = "start"
    /\ schema_idx = 0
    /\ header = <<EmptyLine>>
    /\ all_models = << >>
    /\ all_enums = << >>
    /\ report = << >>
    /\ output = NotWritten
    /\ ScanOff

MergeState == [all_models |-> all_models, all_enums |-> all_enums, report |-> report]

SetMergeState(m) ==
    /\ all_models' = m.all_models
    /\ all_enums' = m.all_enums
    /\ report' = m.report

\* lines 83-101: read the main schema, take its header and its blocks
ReadMain ==
    /\ pc = "start" /\ main_file.exists
    /\ header' = extract_header(main_file.text)
    /\ SetMergeState(read_main(main_file.text))
    /\ schema_idx' = 1
    /\ pc' = "loop"
    /\ UNCHANGED <<main_file, disk, output, scan_vars>>

\* line 85: open() raises when the main schema is not there
ReadMainFails ==
    /\ pc = "start" /\ ~main_file.exists
    /\ pc' = "crashed"
    /\ UNCHANGED <<main_file, disk, schema_idx, header, all_models, all_enums,
                   report, output, scan_vars>>

\* `break` in place of `continue`
leave_loop(idx) == NumAdditional + 1

\* `continue`: on to the next path of the list
continue_loop(idx) == idx + 1

\* lines 113-117: the path does not exist
SkipMissing ==
    /\ pc = "loop" /\ schema_idx <= NumAdditional
    /\ ~disk[schema_idx].exists
    /\ SetMergeState(merge_additional(MergeState, disk[schema_idx], schema_idx))
    /\ schema_idx' = continue_loop(schema_idx)
    /\ UNCHANGED <<main_file, disk, pc, header, output, scan_vars>>

\* lines 119-141: read the file, add its new blocks
MergeAdditional ==
    /\ pc = "loop" /\ schema_idx <= NumAdditional
    /\ disk[schema_idx].exists
    /\ SetMergeState(merge_additional(MergeState, disk[schema_idx], schema_idx))
    /\ schema_idx' = schema_idx + 1
    /\ UNCHANGED <<main_file, disk, pc, header, output, scan_vars>>

\* lines 143-169: build the consolidated text and write it
WriteConsolidated ==
    /\ pc = "loop" /\ schema_idx > NumAdditional
    /\ output' = build_output(header, all_enums, all_models)
    /\ pc' = "done"
    /\ UNCHANGED <<main_file, disk, schema_idx, header, all_models, all_enums,
                   report, scan_vars>>

Next == ReadMain \/ ReadMainFails \/ SkipMissing \/ MergeAdditional \/ WriteConsolidated

Spec == MergeInit /\ [][Next]_vars

----------------------------------------------------------------------------
(* Properties of the merge *)

Kinds == {"model", "enum"}
Names == {"a", "B"}

Registry(kw) == IF kw = "model" THEN all_models ELSE all_enums

\* the documents the run has read so far, in order, with their paths
\* (0: the main schema)
ReadSoFar ==
    IF pc \in {"start", "crashed", "off"} THEN << >>
    ELSE <<[path |-> 0, text |-> main_file.text]>> \o
         SelectSeq([i \in 1..(schema_idx - 1) |-> [path |-> i, text |-> disk[i].text]],
                   LAMBDA d : disk[d.path].exists)

\* the line opens a block of this kind and name
Opens(line, kw, name) == StartsWith(line, kw) /\ SecondToken(line) = name

Defines(text, kw, name) == \E i \in 1..Len(text) : Opens(text[i], kw, name)

\* the runs of lines of text that start at an opening line of the name
Definitions(text, kw, name) ==
    {SubSeq(text, i, j) : i \in {h \in 1..Len(text) : Opens(text[h], kw, name)},
                          j \in 1..Len(text)} \ {<< >>}

IsInfix(part, text) ==
    \E i \in 0..(Len(text) - Len(part)) : SubSeq(text, i + 1, i + Len(part)) = part

\* C1: a block name that several documents define keeps the definition of the
\* earliest document in input order (the main schema first); each later
\* document that defines it gets a skipped-duplicate line and no added line,
\* and the written text contains the earliest document's definition.
FirstSeenWins ==
    \A kw \in Kinds, name \in Names :
        LET docs == ReadSoFar
            def == {i \in 1..Len(docs) : Defines(docs[i].text, kw, name)}
        IN def # {} =>
            LET first == CHOOSE i \in def : \A j \in def : i <= j
            IN /\ DictHas(Registry(kw), name)
               /\ DictGet(Registry(kw), name) \in Definitions(docs[first].text, kw, name)
               /\ \A j \in def \ {first} :
                     /\ \E e \in 1..Len(report) :
                           report[e] = Event("skipped", docs[j].path, kw, name)
                     /\ ~\E e \in 1..Len(report) :
                           report[e] = Event("added", docs[j].path, kw, name)
               /\ pc = "done" => IsInfix(DictGet(Registry(kw), name), output)

\* a later file defines a name differently from the main schema, and the run
\* has finished
FirstSeenWinsWitness ==
    /\ pc = "done"
    /\ \E i \in 1..NumAdditional :
          /\ disk[i].exists
          /\ Defines(main_file.text, "model", "a")
          /\ Defines(disk[i].text, "model", "a")
          /\ DictGet(extract_models(disk[i].text), "a") # DictGet(all_models, "a")

\* C2: merging a written text again, as the main schema and with no additional
\* file, writes the same text.
MergeIdempotent ==
    pc = "done" => merge_output(output, << >>) = output

\* C4: in the written text, no (kind, name) pair is on more than one
\* block-opening line.
NoDuplicateDefinitions ==
    pc = "done" =>
        \A kw \in Kinds, name \in Names :
            Cardinality({i \in 1..Len(output) : Opens(output[i], kw, name)}) <= 1

\* the names on the opening lines of kind kw among lines lo..hi of the output
OpenedNames(lo, hi, kw) ==
    LET opening == SelectSeq(SubSeq(output, lo, hi), LAMBDA l : StartsWith(l, kw))
    IN [i \in 1..Len(opening) |-> SecondToken(opening[i])]

StrictlyAscending(names) ==
    \A i, j \in 1..Len(names) : i < j => StrLess(names[i], names[j])

LabelLine(label) == CHOOSE i \in 1..Len(output) : output[i] = <<"//", label>>

\* C5: in the written text the blocks of the ENUMS section, and the blocks of
\* the MODELS section, are in strictly ascending order of their names.
SectionsSorted ==
    pc = "done" =>
        /\ StrictlyAscending(OpenedNames(LabelLine("ENUMS"), LabelLine("MODELS"), "enum"))
        /\ StrictlyAscending(OpenedNames(LabelLine("MODELS"), Len(output), "model"))

\* a section of two blocks whose names were stored in descending order
SectionsSortedWitness ==
    /\ pc = "done"
    /\ DictKeys(all_models) = <<"a", "B">>
    /\ OpenedNames(LabelLine("MODELS"), Len(output), "model") = <<"B", "a">>

\* the main schema and the additional files that exist
Inputs == <<main_file.text>> \o
          [i \in 1..Len(SelectSeq(disk, LAMBDA f : f.exists)) |->
              SelectSeq(disk, LAMBDA f : f.exists)[i].text]

\* no block name of a kind is defined in two of the input documents
NoCollisions ==
    \A kw \in Kinds, name \in Names :
        Cardinality({i \in 1..Len(Inputs) : Defines(Inputs[i], kw, name)}) <= 1

\* the additional files that exist, in list order
Existing == SelectSeq(disk, LAMBDA f : f.exists)

\* C6: when no block name is defined in two of the documents, every
\* permutation of the additional documents gives the text the run wrote.
OrderIndependent ==
    (pc = "done" /\ NoCollisions) =>
        \A p \in Permutations(1..Len(Existing)) :
            merge_output(main_file.text, [i \in 1..Len(Existing) |-> Existing[p[i]]]) = output

\* two additional files that exist define models whose names are stored in
\* descending order, without collisions
OrderIndependentWitness ==
    /\ pc = "done" /\ NoCollisions
    /\ \E i, j \in 1..NumAdditional :
          /\ i < j /\ disk[i].exists /\ disk[j].exists
          /\ Defines(disk[i].text, "model", "a")
          /\ Defines(disk[j].text, "model", "B")

\* the end of the block the scanner opens at line i of text: the last line of
\* the text, the line before the next opening line of the kind, or the first
\* later line that brings the brace count to zero
OccurrenceEnd(text, kw, i) ==
    CHOOSE e \in i..Len(text) :
        /\ \/ e = Len(text)
           \/ StartsWith(text[e + 1], kw)
           \/ e > i /\ SeqSum([h \in 1..(e - i + 1) |-> BraceDelta(text[i + h - 1])]) = 0
        /\ \A g \in i..(e - 1) :
              ~ \/ StartsWith(text[g + 1], kw)
                \/ g > i /\ SeqSum([h \in 1..(g - i + 1) |-> BraceDelta(text[i + h - 1])]) = 0

\* C7: every block occurrence of every document read either is the text the
\* registry holds for its name, or has a skipped-duplicate line in the report.
NoSilentLoss ==
    pc = "done" =>
        \A d \in 1..Len(ReadSoFar), kw \in Kinds :
            LET doc == ReadSoFar[d]
            IN \A i \in 1..Len(doc.text) :
                  StartsWith(doc.text[i], kw) =>
                      \/ DictGet(Registry(kw), SecondToken(doc.text[i]))
                            = SubSeq(doc.text, i, OccurrenceEnd(doc.text, kw, i))
                      \/ \E e \in 1..Len(report) :
                            report[e] = Event("skipped", doc.path, kw, SecondToken(doc.text[i]))

\* C8: a missing additional file does not stop the run: the file gets a
\* not-found line and no other line, and the text the run writes at its end
\* is the text of the run without the missing files in the list.
MissingSkipped ==
    /\ pc \in {"loop", "done"} =>
          \A i \in 1..(schema_idx - 1) :
              ~disk[i].exists =>
                  \A e \in 1..Len(report) :
                      report[e].path = i => report[e] = Event("missing", i, "-", "-")
    /\ pc \in {"loop", "done"} =>
          \A i \in 1..(schema_idx - 1) :
              ~disk[i].exists =>
                  \E e \in 1..Len(report) : report[e] = Event("missing", i, "-", "-")
    /\ pc = "done" =>
          output = merge_output(main_file.text, SelectSeq(disk, LAMBDA f : f.exists))

\* a missing file stands before a file that adds a block, and the run has
\* finished
MissingSkippedWitness ==
    /\ pc = "done"
    /\ \E i, j \in 1..NumAdditional :
          /\ i < j /\ ~disk[i].exists /\ disk[j].exists
          /\ \E e \in 1..Len(report) : report[e].ev = "added" /\ report[e].path = j

\* the first block-opening line of the main schema, or one past its end
FirstOpening ==
    LET t == main_file.text
        opening == {i \in 1..Len(t) : StartsWith(t[i], "model") \/ StartsWith(t[i], "enum")}
    IN IF opening = {} THEN Len(t) + 1
       ELSE CHOOSE i \in opening : \A j \in opening : i <= j

\* C10: the header is the lines of the main schema before its first
\* block-opening line of either kind, all of them when there is none, and the
\* written text starts with it.
HeaderExtracted ==
    pc \in {"loop", "done"} =>
        /\ header = JoinLines(SubSeq(main_file.text, 1, FirstOpening - 1))
        /\ pc = "done" => SubSeq(output, 1, Len(header)) = header

\* the main schema has header lines and then an enum as its first block
HeaderExtractedWitness ==
    /\ pc = "done"
    /\ FirstOpening > 1 /\ FirstOpening <= Len(main_file.text)
    /\ StartsWith(main_file.text[FirstOpening], "enum")
    /\ Len(header) = FirstOpening - 1

\* the five lines of a section label
LabelLines(label) == <<EmptyLine, Bar, <<"//", label>>, Bar, EmptyLine>>

\* the blocks of a registry in the order p, each followed by a blank line
RECURSIVE EntryLines(_, _)
EntryLines(d, p) ==
    IF p = << >> THEN << >>
    ELSE d[Head(p)].v \o <<EmptyLine>> \o EntryLines(d, Tail(p))

\* the orders of the entries of a registry
Orders(d) == {[i \in 1..Len(d) |-> p[i]] : p \in Permutations(1..Len(d))}

\* C13: the written text is the header, the ENUMS label and one entry per enum
\* of the registry, then the MODELS label and one entry per model of the
\* registry, each entry followed by a blank line; both labels are there when
\* a registry is empty.
OutputLayout ==
    pc = "done" =>
        \E pe \in Orders(all_enums), pm \in Orders(all_models) :
            output = header \o LabelLines("ENUMS") \o EntryLines(all_enums, pe)
                            \o LabelLines("MODELS") \o EntryLines(all_models, pm)

\* a written text with an enum and two models
OutputLayoutWitness ==
    /\ pc = "done"
    /\ Len(all_enums) = 1
    /\ Len(all_models) = 2
    /\ Len(output) > Len(header) + 10

\* the report lines of one outcome for a path, a kind and a name
Lines(ev, path, kw, name) ==
    {e \in 1..Len(report) : report[e] = Event(ev, path, kw, name)}

\* the additional files read so far
ReadPaths == {i \in 1..(schema_idx - 1) : disk[i].exists}

\* the name is defined in the main schema or in an additional file read
\* before path
SeenBefore(path, kw, name) ==
    \/ Defines(main_file.text, kw, name)
    \/ \E j \in ReadPaths : j < path /\ Defines(disk[j].text, kw, name)

\* C15: every block of an additional file that was read has one report line:
\* added when no earlier document defines its name, skipped-duplicate when one
\* does; a name the file does not define has none.  The totals the run
\* returns are the names of the main schema plus the added lines, per kind.
ReportAccounting ==
    pc \in {"loop", "done"} =>
        /\ \A i \in ReadPaths, kw \in Kinds, name \in Names :
              LET added == Cardinality(Lines("added", i, kw, name))
                  skipped == Cardinality(Lines("skipped", i, kw, name))
              IN IF ~Defines(disk[i].text, kw, name) THEN added = 0 /\ skipped = 0
                 ELSE IF SeenBefore(i, kw, name) THEN added = 0 /\ skipped = 1
                 ELSE added = 1 /\ skipped = 0
        /\ \A kw \in Kinds :
              Len(Registry(kw)) =
                  Cardinality({name \in Names : Defines(main_file.text, kw, name)})
                  + Cardinality({e \in 1..Len(report) :
                                    report[e].ev = "added" /\ report[e].kind = kw})

\* a file added one model and skipped another, and the run has finished
ReportAccountingWitness ==
    /\ pc = "done"
    /\ \E i \in ReadPaths, m, n \in Names :
          /\ Lines("added", i, "model", m) # {}
          /\ Lines("skipped", i, "model", n) # {}

\* every path of the list has its report line: not found, or read
AllProcessed ==
    \A i \in 1..NumAdditional :
        \E e \in 1..Len(report) :
            report[e].path = i /\ report[e].ev \in {"missing", "read"}

\* C16: the output is written at most once, and only when the main schema and
\* every additional path have been processed; a run that stops before that
\* writes nothing.
NoPartialWrites ==
    [][output' # output =>
          /\ output = NotWritten
          /\ pc = "loop" /\ pc' = "done"
          /\ report[1] = Event("main", 0, "-", "-")
          /\ AllProcessed]_vars

\* the output was written after a missing path and a file that was read
NoPartialWritesWitness ==
    /\ pc = "done" /\ output # NotWritten
    /\ \E i, j \in 1..NumAdditional : i < j /\ ~disk[i].exists /\ disk[j].exists

\* line j of the text is in a block: at or after an opening line of either
\* kind, and not after the first line that brings the depth counted from that
\* opening line to zero
InBlock(text, j) ==
    \E i \in 1..j :
        /\ StartsWith(text[i], "model") \/ StartsWith(text[i], "enum")
        /\ \A e \in i..(j - 1) :
              SeqSum([h \in 1..(e - i + 1) |-> BraceDelta(text[i + h - 1])]) # 0

\* C19: after the header, every line of the written text is a label line, a
\* blank line or a line of a block of a registry, and the blocks of the
\* registries hold no line that is outside every block of its document.
OnlyBlocksCarried ==
    pc = "done" =>
        /\ \A j \in (Len(header) + 1)..Len(output) :
              \/ output[j] \in {EmptyLine, Bar, <<"//", "ENUMS">>, <<"//", "MODELS">>}
              \/ \E kw \in Kinds : \E b \in 1..Len(Registry(kw)) :
                    \E h \in 1..Len(Registry(kw)[b].v) : Registry(kw)[b].v[h] = output[j]
        /\ \A kw \in Kinds : \A b \in 1..Len(Registry(kw)) :
              LET name == Registry(kw)[b].k
                  text == Registry(kw)[b].v
              IN \E d \in 1..Len(ReadSoFar) :
                    \E i \in 1..Len(ReadSoFar[d].text) :
                        /\ Opens(ReadSoFar[d].text[i], kw, name)
                        /\ SubSeq(ReadSoFar[d].text, i, i + Len(text) - 1) = text
                        /\ \A j \in i..(i + Len(text) - 1) : InBlock(ReadSoFar[d].text, j)

----------------------------------------------------------------------------
(* Properties of the scanner *)

\* the brace depth after each line of a text
RECURSIVE Depths(_, _)
Depths(text, before) ==
    IF text = << >> THEN << >>
    ELSE LET d == before + BraceDelta(Head(text))
         IN <<d>> \o Depths(Tail(text), d)

Braces(text, ch) == SeqSum([i \in 1..Len(text) |-> Count(text[i], ch)])

Balanced(text) == Braces(text, "{") = Braces(text, "}")

\* C3, as claimed: every block the scanner returns has as many '{' as '}', a
\* running depth that is never negative, and depth zero only at its last line.
ReturnedBlocksBalanced ==
    scan_pc = "returned" =>
        \A b \in 1..Len(models) :
            LET text == models[b].v
                depth == Depths(text, 0)
            IN /\ Balanced(text)
               /\ \A i \in 1..Len(text) : depth[i] >= 0
               /\ \A i \in 1..Len(text) : depth[i] = 0 <=> i = Len(text)

\* C3, amended: a block stored because a line that opens no block brought
\* the brace count back to zero has as many '{' as '}', and its running depth
\* is not zero after any line between its opening line and its last line.
ClosedBlocksBalanced ==
    \A b \in 1..Len(stored) :
        stored[b].how = "close" =>
            LET text == stored[b].text
                depth == Depths(text, 0)
            IN /\ Balanced(text)
               /\ depth[Len(text)] = 0
               /\ \A i \in 2..(Len(text) - 1) : depth[i] # 0

\* a block of three lines or more was closed, and the call has returned
ClosedBlocksBalancedWitness ==
    /\ scan_pc = "returned"
    /\ \E b \in 1..Len(stored) :
          /\ stored[b].how = "close"
          /\ Len(stored[b].text) >= 3
          /\ DictHas(models, stored[b].name)
          /\ DictGet(models, stored[b].name) = stored[b].text

\* the lines e at or after line i of the document with brace depth zero,
\* counted from line i
ZeroDepthLines(i) ==
    {e \in i..Len(schema_content) :
        SeqSum([h \in 1..(e - i + 1) |-> BraceDelta(schema_content[i + h - 1])]) = 0}

\* C9: a stored block is the lines from its opening line through the first
\* line after which the brace depth is zero, and the scanner is out of the
\* block after that line.
BlockExtent ==
    /\ \A b \in 1..Len(stored) :
          LET zero == ZeroDepthLines(stored[b].first)
          IN zero # {} =>
                stored[b].text =
                    SubSeq(schema_content, stored[b].first,
                           CHOOSE e \in zero : \A g \in zero : e <= g)
    /\ in_model => SeqSum([h \in 1..Len(current_content) |->
                              BraceDelta(current_content[h])]) # 0

\* the last line of the document that opens a block of the scanned kind
LastOpening ==
    CHOOSE i \in 1..Len(schema_content) :
        /\ StartsWith(schema_content[i], keyword)
        /\ \A j \in (i + 1)..Len(schema_content) : ~StartsWith(schema_content[j], keyword)

\* C11: when the document ends inside a block, the call still returns that
\* block under its name, with the lines from its opening line to the last
\* line of the document.
UnterminatedReturned ==
    (scan_pc = "returned" /\ in_model) =>
        /\ current_model = SecondToken(schema_content[LastOpening])
        /\ DictHas(models, current_model)
        /\ DictGet(models, current_model)
              = SubSeq(schema_content, LastOpening, Len(schema_content))

\* the document ended two lines or more into a block with open braces
UnterminatedReturnedWitness ==
    /\ scan_pc = "returned" /\ in_model
    /\ brace_count > 0
    /\ Len(current_content) >= 2
    /\ stored[Len(stored)].how = "eof"

\* C12: a line that has the kind keyword and no identifier after it makes the
\* scan of the document fail.
MalformedHeaderFails ==
    \A i \in 1..line_no :
        schema_content[i] = <<keyword>> => scan_pc = "failed"

\* C14: a name stored in the dict keeps its text: a later block of the same
\* name, also one of the same document, does not change it.
RegistryWriteOnce ==
    [][\A i \in 1..Len(models) :
          /\ Len(models') >= i
          /\ models'[i] = models[i]]_vars

\* C17: an opening line of the scanned kind read while a block is open raises
\* nothing: the open block is stored under its name with the lines
\* accumulated before this line, and a new block starts at this line with the
\* brace count of this line alone.
ReopenStoresAndRestarts ==
    [][(scan_pc = "loop" /\ line_no < Len(schema_content) /\ in_model
            /\ StartsWith(schema_content[line_no + 1], keyword)) =>
          /\ scan_pc' = "loop" /\ line_no' = line_no + 1
          /\ DictHas(models', current_model)
          /\ DictGet(models', current_model) = current_content
          /\ current_content = SubSeq(schema_content,
                                      line_no + 1 - Len(current_content), line_no)
          /\ in_model'
          /\ current_model' = SecondToken(schema_content[line_no + 1])
          /\ current_content' = <<schema_content[line_no + 1]>>
          /\ brace_count' = BraceDelta(schema_content[line_no + 1])]_vars

\* a block with open braces was stored at an opening line of another name,
\* and the new block is open
ReopenStoresAndRestartsWitness ==
    /\ scan_pc = "loop" /\ in_model
    /\ stored # << >>
    /\ stored[Len(stored)].how = "reopen"
    /\ stored[Len(stored)].name # current_model
    /\ Len(stored[Len(stored)].text) >= 2
    /\ current_content = <<schema_content[line_no]>>

\* line j of the text is put in the accumulator of the scanner for kind kw
Accumulated(text, kw, j) ==
    \/ StartsWith(text[j], kw)
    \/ scan_lines(ScanStart, SubSeq(text, 1, j - 1), kw).in_model

AnyOpening(line) == StartsWith(line, "model") \/ StartsWith(line, "enum")

\* every opening line has more '{' than '}', and its block is closed by a
\* later line before any other opening line, with a positive depth between
WellFormed(text) ==
    \A i \in 1..Len(text) :
        AnyOpening(text[i]) =>
            /\ BraceDelta(text[i]) > 0
            /\ \E e \in (i + 1)..Len(text) :
                  /\ Depths(SubSeq(text, i, e), 0)[e - i + 1] = 0
                  /\ \A g \in i..(e - 1) : Depths(SubSeq(text, i, g), 0)[g - i + 1] > 0
                  /\ \A g \in (i + 1)..e : ~AnyOpening(text[g])

\* C18: in a well-formed document no line is in a model block and in an enum
\* block, no line before the first opening line is in a block, and an opening
\* line of one kind is outside the blocks of the other kind.
KindsDisjoint ==
    (scan_pc = "returned" /\ WellFormed(schema_content)) =>
        \A j \in 1..Len(schema_content) :
            /\ ~(Accumulated(schema_content, "model", j)
                    /\ Accumulated(schema_content, "enum", j))
            /\ (\A i \in 1..j : ~AnyOpening(schema_content[i])) =>
                  /\ ~Accumulated(schema_content, "model", j)
                  /\ ~Accumulated(schema_content, "enum", j)
            /\ StartsWith(schema_content[j], "enum") =>
                  ~Accumulated(schema_content, "model", j)
            /\ StartsWith(schema_content[j], "model") =>
                  ~Accumulated(schema_content, "enum", j)

\* a well-formed document with a model block, then an enum block
KindsDisjointWitness ==
    /\ scan_pc = "returned" /\ WellFormed(schema_content)
    /\ \E i, j \in 1..Len(schema_content) :
          /\ i < j
          /\ StartsWith(schema_content[i], "model")
          /\ StartsWith(schema_content[j], "enum")

\* C20: after every line the scanner is outside (flag off, no name, empty
\* accumulator, count zero) or in a block (flag on, a name, an accumulator
\* that starts with the opening line of that name).
ScannerConsistent ==
    \/ /\ ~in_model
       /\ current_model = None
       /\ current_content = << >>
       /\ brace_count = 0
    \/ /\ in_model
       /\ current_model # None
       /\ current_content # << >>
       /\ StartsWith(current_content[1], keyword)
       /\ SecondToken(current_content[1]) = current_model

\* the scanner closed a block and is two lines into the next one
ScannerConsistentWitness ==
    /\ in_model /\ Len(current_content) >= 2
    /\ stored # << >>
    /\ stored[Len(stored)].how = "close"

====
